---- MODULE Spec2Model ----
(***************************************************************************)
(* Model of the gRPC server instrumentation probe                          *)
(* (internal/pkg/instrumentation/bpf/google.golang.org/grpc/server).       *)
(*                                                                         *)
(* The probe declares its constants and uprobes in New, resolves two       *)
(* version dependent constants itself (framePosConst, serverAddrConst) and *)
(* converts every event delivered by the kernel side into a span           *)
(* (processor.processFn).  serverAddr is a package level variable shared   *)
(* by every resolution and every processFn call of the agent process.      *)
(*                                                                         *)
(* Versions are release versions major.minor.patch, as built by            *)
(* semver.New(major, minor, patch, "", "").                                *)
(***************************************************************************)
EXTENDS Integers, Sequences, FiniteSets

\* ---------------------------------------------------------------- bounds

\* Largest patch number of a sampled version.
MaxPatch == 1

\* Largest status code an event carries; the gRPC codes are 0..16.
MaxStatusCode == 17

\* Capacity of the event's Method buffer ([100]byte in the source).
MethodCap == 2

\* ------------------------------------------------------------- versions

pkg == "google.golang.org/grpc"

xnet == "golang.org/x/net"

std == "std"

\* semver.Version.Compare on release versions: -1, 0 or 1.
Compare(a, b) ==
  IF a[1] # b[1] THEN (IF a[1] < b[1] THEN -1 ELSE 1)
  ELSE IF a[2] # b[2] THEN (IF a[2] < b[2] THEN -1 ELSE 1)
  ELSE IF a[3] # b[3] THEN (IF a[3] < b[3] THEN -1 ELSE 1)
  ELSE 0

GreaterThanEqual(a, b) == Compare(a, b) >= 0

LessThan(a, b) == Compare(a, b) < 0

GreaterThan(a, b) == Compare(a, b) > 0

writeStatusMinVersion == <<1, 40, 0>>

serverStreamVersion == <<1, 69, 0>>

paramChangeVer == <<1, 60, 0>>

serverAddrMinVersion == <<1, 60, 0>>

\* One comparison of a parsed constraint against a version.
CheckOne(c, v) ==
  CASE c.op = "<"  -> LessThan(v, c.ver)
    [] c.op = ">"  -> GreaterThan(v, c.ver)
    [] c.op = ">=" -> GreaterThanEqual(v, c.ver)

\* semver.Constraints.Check: the comma separated comparisons are ANDed.
Check(cs, v) == \A i \in 1..Len(cs) : CheckOne(cs[i], v)

\* "< ver" widened to include ver itself.
ConstraintLTInclusive(ver) == << [op |-> "<", ver |-> <<ver[1], ver[2], ver[3] + 1>>] >>

\* ">= ver" written with the minor version before ver's.
ConstraintGEPrevMinor(ver) == << [op |-> ">=", ver |-> <<ver[1], ver[2] - 1, ver[3]>>] >>

\* semver.NewConstraint of the strings built in New.
ConstraintLT(ver) == << [op |-> "<", ver |-> ver] >>

ConstraintGE(ver) == << [op |-> ">=", ver |-> ver] >>

ConstraintGTandLT(lo, hi) == << [op |-> ">", ver |-> lo], [op |-> "<", ver |-> hi] >>

\* -------------------------------------------------------------- uprobes

symHandleStream == "google.golang.org/grpc.(*Server).handleStream"

symOperateHeaders == "google.golang.org/grpc/internal/transport.(*http2Server).operateHeaders"

symWriteStatusOld == "google.golang.org/grpc/internal/transport.(*http2Server).WriteStatus"

symWriteStatusNew == "google.golang.org/grpc/internal/transport.(*http2Server).writeStatus"

\* The constraint of the http2Server.WriteStatus uprobe.
WriteStatusConstraint == ConstraintGTandLT(writeStatusMinVersion, serverStreamVersion)

\* Base.Uprobes of the probe returned by New, in declaration order.
Uprobes ==
  << [Sym |-> symHandleStream,
      EntryProbe |-> "uprobe_server_handleStream",
      ReturnProbe |-> "uprobe_server_handleStream_Returns",
      PackageConstraints |->
        << [Package |-> pkg, Constraints |-> ConstraintLT(serverStreamVersion),
            FailureMode |-> "Ignore"] >>],
     [Sym |-> symHandleStream,
      EntryProbe |-> "uprobe_server_handleStream2",
      ReturnProbe |-> "uprobe_server_handleStream2_Returns",
      PackageConstraints |->
        << [Package |-> pkg, Constraints |-> ConstraintGE(serverStreamVersion),
            FailureMode |-> "Ignore"] >>],
     [Sym |-> symOperateHeaders,
      EntryProbe |-> "uprobe_http2Server_operateHeader",
      ReturnProbe |-> "",
      PackageConstraints |-> << >>],
     [Sym |-> symWriteStatusOld,
      EntryProbe |-> "uprobe_http2Server_WriteStatus",
      ReturnProbe |-> "",
      PackageConstraints |->
        << [Package |-> pkg, Constraints |-> WriteStatusConstraint,
            FailureMode |-> "Ignore"] >>],
     [Sym |-> symWriteStatusNew,
      EntryProbe |-> "uprobe_http2Server_WriteStatus2",
      ReturnProbe |-> "",
      PackageConstraints |->
        << [Package |-> pkg, Constraints |-> ConstraintGE(serverStreamVersion),
            FailureMode |-> "Ignore"] >>] >>

\* One (package, constraint, failure mode) triple against the detected
\* modules; a package that was not detected leaves the constraint unmet.
ConstraintMet(pc, Modules) ==
  /\ pc.Package \in DOMAIN Modules
  /\ Check(pc.Constraints, Modules[pc.Package])

\* All triples of an uprobe are met (none for an unconstrained uprobe).
UprobeApplies(u, Modules) ==
  \A i \in 1..Len(u.PackageConstraints) : ConstraintMet(u.PackageConstraints[i], Modules)

\* An unmet triple that is not Ignore-mode aborts the whole probe.
UprobeAborts(u, Modules) ==
  \E i \in 1..Len(u.PackageConstraints) :
    /\ ~ConstraintMet(u.PackageConstraints[i], Modules)
    /\ u.PackageConstraints[i].FailureMode # "Ignore"

\* The entry handlers of the uprobes that survive for the detected modules.
SelectUprobes(Modules) ==
  { Uprobes[i].EntryProbe : i \in { j \in 1..Len(Uprobes) : UprobeApplies(Uprobes[j], Modules) } }

\* ------------------------------------------------------- process.Info

\* Version of golang.org/x/net in a target that links it.
xnetVersion == <<0, 30, 0>>

\* Go version of the target binaries (the golang image they are built on).
stdVersion == <<1, 24, 4>>

\* Minor versions around the three thresholds 1.40.0, 1.60.0 and 1.69.0.
Minors == {39, 40, 41, 59, 60, 65, 68, 69, 70}

GrpcVersions ==
  { <<1, m, p>> : m \in Minors, p \in 0..MaxPatch } \cup { <<0, 70, 0>>, <<2, 0, 0>> }

\* info.Modules: import path -> detected version.  g is the detected grpc
\* version (<< >> when the target does not link grpc), x tells whether the
\* target links golang.org/x/net.
ModulesOf(g, x) ==
  [ p \in ({std} \cup (IF g # << >> THEN {pkg} ELSE {}) \cup (IF x THEN {xnet} ELSE {})) |->
      IF p = pkg THEN g[1] ELSE IF p = xnet THEN xnetVersion ELSE stdVersion ]

Infos ==
  { [Modules |-> ModulesOf(g, x)] :
      g \in { << >> } \cup { <<v>> : v \in GrpcVersions }, x \in BOOLEAN }

\* The targets of the runs that exercise every event: no grpc, and a grpc
\* version on either side of serverAddrMinVersion.
InfosFew ==
  { [Modules |-> ModulesOf(g, TRUE)] : g \in { << >>, << <<1, 59, 0>> >>, << <<1, 60, 0>> >> } }

\* ------------------------------------------------------------- constants

\* A nil error.
NoErr == << >>

\* fmt.Errorf("unknown module version: %s", path)
UnknownModule(path) == <<"unknown module version", path>>

\* A map with key k set to v (inject.WithKeyValue, inject.WithOffset).
Put(m, k, v) == [ x \in (DOMAIN m) \cup {k} |-> IF x = k THEN v ELSE m[x] ]

EmptyMap == [ x \in {} |-> FALSE ]

\* The result of one InjectOption call: the error, the option (a map of the
\* keys it injects; empty when there is none) and the value of the package
\* variable serverAddr after the call.
Result(err, opt, flag) == [err |-> err, opt |-> opt, serverAddr |-> flag]

\* framePosConst.InjectOption
framePosConst_InjectOption(info, flag) ==
  IF pkg \notin DOMAIN info.Modules
  THEN Result(UnknownModule(pkg), EmptyMap, flag)
  ELSE Result(NoErr,
              Put(EmptyMap, "is_new_frame_pos",
                  GreaterThanEqual(info.Modules[pkg], paramChangeVer)),
              flag)

\* serverAddrConst.InjectOption written so that the option carries the value
\* serverAddr had before the version comparison.
serverAddrConst_ReturnsOldFlag(info, flag) ==
  IF pkg \notin DOMAIN info.Modules
  THEN Result(UnknownModule(pkg), EmptyMap, flag)
  ELSE Result(NoErr, Put(EmptyMap, "server_addr_supported", flag),
              IF GreaterThanEqual(info.Modules[pkg], serverAddrMinVersion) THEN TRUE ELSE flag)

\* serverAddrConst.InjectOption without the check of the map lookup: a
\* missing module yields the current flag and no error.
serverAddrConst_NoLookupCheck(info, flag) ==
  IF pkg \notin DOMAIN info.Modules
  THEN Result(NoErr, Put(EmptyMap, "server_addr_supported", flag), flag)
  ELSE LET f == IF GreaterThanEqual(info.Modules[pkg], serverAddrMinVersion) THEN TRUE ELSE flag
       IN  Result(NoErr, Put(EmptyMap, "server_addr_supported", f), f)

\* serverAddrConst.InjectOption: serverAddr is set to true when the version
\* is at least serverAddrMinVersion and is left as it is otherwise; the
\* option carries serverAddr.
serverAddrConst_InjectOption(info, flag) ==
  IF pkg \notin DOMAIN info.Modules
  THEN Result(UnknownModule(pkg), EmptyMap, flag)
  ELSE LET f == IF GreaterThanEqual(info.Modules[pkg], serverAddrMinVersion) THEN TRUE ELSE flag
       IN  Result(NoErr, Put(EmptyMap, "server_addr_supported", f), f)

\* probe.AllocationConst: derived from static knowledge, never fails.
AllocationConst_InjectOption(info, flag) ==
  Result(NoErr, Put(EmptyMap, "allocation", "alloc"), flag)

\* probe.StructFieldConst: the offset of a struct field for the detected
\* version of the module that declares it.
StructFieldConst_InjectOption(c, info, flag) ==
  IF c.ModPath \notin DOMAIN info.Modules
  THEN Result(UnknownModule(c.ModPath), EmptyMap, flag)
  ELSE Result(NoErr, Put(EmptyMap, c.Key, "offset"), flag)

\* probe.StructFieldConstMinVersion: skipped, without error and without
\* option, below MinVersion.
StructFieldConstMinVersion_InjectOption(c, info, flag) ==
  IF c.ModPath \notin DOMAIN info.Modules
  THEN Result(UnknownModule(c.ModPath), EmptyMap, flag)
  ELSE IF ~GreaterThanEqual(info.Modules[c.ModPath], c.MinVersion)
  THEN Result(NoErr, EmptyMap, flag)
  ELSE Result(NoErr, Put(EmptyMap, c.Key, "offset"), flag)

StructField(key, mod) ==
  [kind |-> "StructFieldConst", Key |-> key, ModPath |-> mod, MinVersion |-> <<0, 0, 0>>]

StructFieldMin(key, mod, min) ==
  [kind |-> "StructFieldConstMinVersion", Key |-> key, ModPath |-> mod, MinVersion |-> min]

Plain(kind) == [kind |-> kind, Key |-> "", ModPath |-> "", MinVersion |-> <<0, 0, 0>>]

\* Base.Consts of the probe returned by New, in declaration order.
Consts ==
  << Plain("AllocationConst"),
     Plain("serverAddrConst"),
     StructField("stream_method_ptr_pos", pkg),
     StructField("stream_id_pos", pkg),
     StructField("stream_ctx_pos", pkg),
     StructFieldMin("server_stream_stream_pos", pkg, serverStreamVersion),
     StructField("frame_fields_pos", xnet),
     StructField("frame_stream_id_pod", xnet),
     StructFieldMin("status_s_pos", pkg, writeStatusMinVersion),
     StructFieldMin("status_code_pos", pkg, writeStatusMinVersion),
     StructFieldMin("http2server_peer_pos", pkg, serverAddrMinVersion),
     StructFieldMin("peer_local_addr_pos", pkg, serverAddrMinVersion),
     StructField("TCPAddr_IP_offset", std),
     StructField("TCPAddr_Port_offset", std),
     Plain("framePosConst") >>

\* The probe.Const interface: the InjectOption of the constant's type.
InjectOption(c, info, flag) ==
  CASE c.kind = "AllocationConst" -> AllocationConst_InjectOption(info, flag)
    [] c.kind = "serverAddrConst" -> serverAddrConst_InjectOption(info, flag)
    [] c.kind = "framePosConst" -> framePosConst_InjectOption(info, flag)
    [] c.kind = "StructFieldConst" -> StructFieldConst_InjectOption(c, info, flag)
    [] c.kind = "StructFieldConstMinVersion" -> StructFieldConstMinVersion_InjectOption(c, info, flag)

Merge(m, opt) == [ x \in (DOMAIN m) \cup (DOMAIN opt) |-> IF x \in DOMAIN opt THEN opt[x] ELSE m[x] ]

\* Every constant's resolver in declaration order from the i-th on; the
\* first error aborts.  The result names the failing constant and carries
\* the options collected and the value of serverAddr left behind.
RECURSIVE ResolveConsts(_, _, _, _)
ResolveConsts(i, info, flag, opts) ==
  IF i > Len(Consts)
  THEN [err |-> NoErr, failed |-> "", opts |-> opts, serverAddr |-> flag]
  ELSE LET r == InjectOption(Consts[i], info, flag)
       IN  IF r.err # NoErr
           THEN [err |-> r.err, failed |-> Consts[i].kind, opts |-> opts,
                 serverAddr |-> r.serverAddr]
           ELSE ResolveConsts(i + 1, info, r.serverAddr, Merge(opts, r.opt))

\* Resolution of the probe for one target: the uprobes are filtered, then
\* the constants resolved.  probe is << >> when resolution fails and holds
\* the resolved probe (constants and surviving uprobes) otherwise.
Resolve(info, flag) ==
  IF \E i \in 1..Len(Uprobes) : UprobeAborts(Uprobes[i], info.Modules)
  THEN [err |-> <<"unmet package constraint">>, failed |-> "Uprobe", probe |-> << >>,
        serverAddr |-> flag]
  ELSE LET r == ResolveConsts(1, info, flag, EmptyMap)
       IN  [err |-> r.err, failed |-> r.failed,
            probe |-> IF r.err = NoErr
                      THEN << [Consts |-> r.opts, Uprobes |-> SelectUprobes(info.Modules)] >>
                      ELSE << >>,
            serverAddr |-> r.serverAddr]

\* Resolve tabulated over the sampled targets and both values of serverAddr.
Resolved == [ info \in Infos \cup InfosFew, flag \in BOOLEAN |-> Resolve(info, flag) ]

\* ----------------------------------------------------------------- events

codes_Unknown == 2

codes_DeadlineExceeded == 4

codes_Unimplemented == 12

codes_Internal == 13

codes_Unavailable == 14

codes_DataLoss == 15

\* NetAddr.IP samples: sixteen bytes.
IPZero == [ i \in 1..16 |-> 0 ]

IPv4Mapped == [ i \in 1..16 |->
  IF i <= 10 THEN 0 ELSE IF i <= 12 THEN 255 ELSE IF i = 13 THEN 127 ELSE IF i = 16 THEN 1 ELSE 0 ]

IPv6Loopback == [ i \in 1..16 |-> IF i = 16 THEN 1 ELSE 0 ]

LocalAddrs ==
  { [IP |-> IPZero, Port |-> 0], [IP |-> IPv4Mapped, Port |-> 8080],
    [IP |-> IPv6Loopback, Port |-> 50051] }

\* Method buffers: each byte NUL or 'F'.
Methods == [ 1..MethodCap -> {0, 70} ]

\* Parent span identifiers: 0 is the all-zero (invalid) identifier.
ParentSpanIDs == {0, 7}

\* HasStatus is a uint8; any non-zero value means a status was written.
HasStatusValues == {0, 1, 255}

EventOf(parent, method, code, addr, has) ==
  [SpanContext |-> [TraceID |-> 1, SpanID |-> 1],
   ParentSpanContext |-> [SpanID |-> parent],
   Method |-> method,
   StatusCode |-> code,
   LocalAddr |-> addr,
   HasStatus |-> has]

\* Every sampled event with the full Method buffer "FF".
Events ==
  { EventOf(parent, [ i \in 1..MethodCap |-> 70 ], code, addr, has) :
      parent \in ParentSpanIDs, code \in 0..MaxStatusCode,
      addr \in LocalAddrs, has \in HasStatusValues }

\* A few events with every Method buffer.
EventsFew ==
  { EventOf(parent, method, codes_Internal, [IP |-> IPv4Mapped, Port |-> 8080], 1) :
      parent \in ParentSpanIDs, method \in Methods }

\* unix.ByteSliceToString: the bytes before the first NUL, all of them when
\* there is none.
ByteSliceToString(b) ==
  LET z == { i \in 1..Len(b) : b[i] = 0 }
  IN  IF z = {} THEN b
      ELSE SubSeq(b, 1, (CHOOSE i \in z : \A j \in z : i <= j) - 1)

\* net.IP.String of a 16 byte address: dotted decimal for an IPv4-mapped
\* address, the eight 16-bit groups otherwise.
IPString(ip) ==
  IF (\A i \in 1..10 : ip[i] = 0) /\ ip[11] = 255 /\ ip[12] = 255
  THEN [form |-> "dotted", parts |-> <<ip[13], ip[14], ip[15], ip[16]>>]
  ELSE [form |-> "groups", parts |-> [ g \in 1..8 |-> ip[2 * g - 1] * 256 + ip[2 * g] ]]

\* trace.SpanID.IsValid: not all zero.
IsValid(id) == id # 0

\* The parent identifier set when it is NOT valid.
SetParentInverted(span, e) ==
  IF ~IsValid(e.ParentSpanContext.SpanID)
  THEN [span EXCEPT !.ParentSpanID = e.ParentSpanContext.SpanID + 1]
  ELSE span

\* processFn: the parent identifier is set only when it is valid.
SetParent(span, e) ==
  IF IsValid(e.ParentSpanContext.SpanID)
  THEN [span EXCEPT !.ParentSpanID = e.ParentSpanContext.SpanID]
  ELSE span

\* The error class with codes.Canceled added.
IsErrorCodeWithCanceled(code) ==
  code \in { 1, codes_Unknown, codes_DeadlineExceeded, codes_Unimplemented,
             codes_Internal, codes_Unavailable, codes_DataLoss }

\* processFn: the cases of the switch on e.StatusCode.
IsErrorCode(code) ==
  code \in { codes_Unknown, codes_DeadlineExceeded, codes_Unimplemented,
             codes_Internal, codes_Unavailable, codes_DataLoss }

\* processFn: the status is set only under e.HasStatus != 0.
SetStatus(span, e) ==
  IF e.HasStatus # 0 /\ IsErrorCode(e.StatusCode)
  THEN [span EXCEPT !.Status = "Error"]
  ELSE span

\* The address attributes appended whatever the flag is.
AddrAttrsAlways(e, flag) ==
  << <<"server.address", IPString(e.LocalAddr.IP)>>, <<"server.port", e.LocalAddr.Port>> >>

\* processFn: the address attributes appended under serverAddr.
AddrAttrs(e, flag) ==
  IF flag
  THEN << <<"server.address", IPString(e.LocalAddr.IP)>>, <<"server.port", e.LocalAddr.Port>> >>
  ELSE << >>

\* pdataconv.Attributes: the key/value list put into the span's attribute
\* map; a later value of a key replaces an earlier one.
RECURSIVE Attributes(_, _)
Attributes(m, attrs) ==
  IF attrs = << >> THEN m
  ELSE Attributes(Put(m, Head(attrs)[1], Head(attrs)[2]), Tail(attrs))

\* processor.processFn under the value flag of serverAddr: the span slice.
processFn(e, flag) ==
  LET method == ByteSliceToString(e.Method)
      empty == [Name |-> << >>, Kind |-> "Unspecified", TraceID |-> 0, SpanID |-> 0,
                Flags |-> 0, ParentSpanID |-> 0, Status |-> "Unset",
                Attributes |-> EmptyMap]
      ident == [empty EXCEPT !.Name = method, !.Kind = "Server",
                             !.TraceID = e.SpanContext.TraceID,
                             !.SpanID = e.SpanContext.SpanID, !.Flags = 1]
      withParent == SetParent(ident, e)
      base == << <<"rpc.system", "grpc">>, <<"rpc.service", method>>,
                 <<"rpc.grpc.status_code", e.StatusCode>> >>
      withCode == IF e.HasStatus # 0
                  THEN Append(base, <<"rpc.grpc.status_code", e.StatusCode>>)
                  ELSE base
      withStatus == SetStatus(withParent, e)
      attrs == withCode \o AddrAttrs(e, flag)
  IN  << [withStatus EXCEPT !.Attributes = Attributes(EmptyMap, attrs)] >>

\* ------------------------------------------------------------------ state

Targets == {"t1", "t2"}

VARIABLES
  serverAddr,   \* the package variable serverAddr
  attached,     \* per target: << >>, or <<b>> with b the server_addr_supported
                \* constant of the probe loaded for it
  lastRes,      \* << >>, or the latest resolution: its info and its outcome
  prevSame,     \* << >>, or the outcome of the resolution before the latest
                \* one when both were given the same info
  started,      \* processFn has been called
  lastEv        \* << >>, or the event just processed, its target and its spans

vars == <<serverAddr, attached, lastRes, prevSame, started, lastEv>>

Init ==
  /\ serverAddr = FALSE
  /\ attached = [ t \in Targets |-> << >> ]
  /\ lastRes = << >>
  /\ prevSame = << >>
  /\ started = FALSE
  /\ lastEv = << >>

Outcome(r) == [err |-> r.err, failed |-> r.failed, probe |-> r.probe]

\* A target process is discovered in slot t and the probe is resolved for
\* it; the probe is loaded when resolution succeeds.
Load(t, info) ==
  /\ attached[t] = << >>
  /\ LET r == Resolved[info, serverAddr]
     IN  /\ serverAddr' = r.serverAddr
         /\ attached' = IF r.err = NoErr
                        THEN [attached EXCEPT ![t] = << r.probe[1].Consts["server_addr_supported"] >>]
                        ELSE attached
         /\ lastRes' = << [info |-> info, out |-> Outcome(r)] >>
         /\ prevSame' = IF lastRes # << >> /\ lastRes[1].info = info
                        THEN << lastRes[1].out >>
                        ELSE << >>
  /\ lastEv' = << >>
  /\ UNCHANGED started

\* The probe of target t delivers event e to processFn.
Process(t, e) ==
  /\ attached[t] # << >>
  /\ lastEv' = << [t |-> t, e |-> e, spans |-> processFn(e, serverAddr)] >>
  /\ started' = TRUE
  /\ UNCHANGED <<serverAddr, attached, lastRes, prevSame>>

\* The probe of target t is closed: its uprobes are detached.
Close(t) ==
  /\ attached[t] # << >>
  /\ attached' = [attached EXCEPT ![t] = << >>]
  /\ lastEv' = << >>
  /\ UNCHANGED <<serverAddr, lastRes, prevSame, started>>

LoadAny == \E t \in Targets : \E info \in Infos : Load(t, info)

ProcessFew == \E t \in Targets : \E e \in EventsFew : Process(t, e)

CloseAny == \E t \in Targets : Close(t)

Next == LoadAny \/ ProcessFew \/ CloseAny

\* Every target version, a few events.
Spec == Init /\ [][Next]_vars

LoadFew == \E info \in InfosFew : Load("t1", info)

ProcessAny == \E e \in Events : Process("t1", e)

CloseOne == Close("t1")

NextEvents == LoadFew \/ ProcessAny \/ CloseOne

\* A few target versions, every event.
SpecEvents == Init /\ [][NextEvents]_vars

\* ----------------------------------------------------------------- claims

\* The latest resolution was given a target that links grpc.
LastHasGrpc == lastRes # << >> /\ pkg \in DOMAIN lastRes[1].info.Modules

\* The latest resolution produced a resolved probe.
LastResolved == lastRes # << >> /\ lastRes[1].out.probe # << >>

LastVersion == lastRes[1].info.Modules[pkg]

LastProbe == lastRes[1].out.probe[1]

\* Version v is at least major.minor.0, by its components.
AtLeast(v, major, minor) == v[1] > major \/ (v[1] = major /\ v[2] >= minor)

\* C1: the flag is re-resolved by every resolution: after a resolution for a
\* target that links grpc, serverAddr equals (version >= 1.60.0) for that
\* version alone, and so does the server_addr_supported constant of the
\* resolved probe.
C1_FlagReResolved ==
  LastHasGrpc =>
    /\ serverAddr = AtLeast(LastVersion, 1, 60)
    /\ LastResolved =>
         LastProbe.Consts["server_addr_supported"] = AtLeast(LastVersion, 1, 60)

\* C2: serverAddr is written only before event processing begins: once
\* processFn has been called, no step changes serverAddr.
C2_FlagReadOnlyOnceStarted == [][started => serverAddr' = serverAddr]_vars

\* C3: for handleStream, a version below 1.69.0 selects
\* uprobe_server_handleStream and excludes uprobe_server_handleStream2; a
\* version of at least 1.69.0 selects uprobe_server_handleStream2 and
\* excludes uprobe_server_handleStream.
C3_HandleStreamVariant ==
  LastResolved =>
    IF AtLeast(LastVersion, 1, 69)
    THEN /\ "uprobe_server_handleStream2" \in LastProbe.Uprobes
         /\ "uprobe_server_handleStream" \notin LastProbe.Uprobes
    ELSE /\ "uprobe_server_handleStream" \in LastProbe.Uprobes
         /\ "uprobe_server_handleStream2" \notin LastProbe.Uprobes

\* Version 1.65.0 was resolved and the pre-threshold variant selected.
C3_Witness ==
  /\ LastResolved
  /\ LastVersion = <<1, 65, 0>>
  /\ "uprobe_server_handleStream" \in LastProbe.Uprobes

\* The uprobes that share the symbol of the uprobe with entry handler entry.
SameSym(entry) ==
  { Uprobes[j].EntryProbe : j \in { k \in 1..Len(Uprobes) :
      \E i \in 1..Len(Uprobes) :
        Uprobes[i].EntryProbe = entry /\ Uprobes[i].Sym = Uprobes[k].Sym } }

\* C4: partition: for the modules of every resolution, no two uprobes with
\* the same symbol both have all their constraints met, and the uprobes of a
\* resolved probe hold at most one entry per symbol.
C4_Partition ==
  lastRes # << >> =>
    /\ \A i, j \in 1..Len(Uprobes) :
         (i # j /\ Uprobes[i].Sym = Uprobes[j].Sym) =>
           ~(UprobeApplies(Uprobes[i], lastRes[1].info.Modules)
             /\ UprobeApplies(Uprobes[j], lastRes[1].info.Modules))
    /\ LastResolved =>
         \A a \in LastProbe.Uprobes : SameSym(a) \cap LastProbe.Uprobes = {a}

\* Version 1.69.0 was resolved: of the two handleStream uprobes only the
\* second is selected.
C4_Witness ==
  /\ LastResolved
  /\ LastVersion = <<1, 69, 0>>
  /\ SameSym("uprobe_server_handleStream") \cap LastProbe.Uprobes
       = {"uprobe_server_handleStream2"}

\* C5: a target that does not link grpc: resolution ends in an error and in
\* no resolved probe, although the only surviving uprobe, operateHeaders,
\* applies; the error is serverAddrConst's, and framePosConst and
\* serverAddrConst both return an error and no option.
C5_MissingDependencyFails ==
  (lastRes # << >> /\ ~LastHasGrpc) =>
    /\ lastRes[1].out.err = UnknownModule(pkg)
    /\ lastRes[1].out.probe = << >>
    /\ lastRes[1].out.failed = "serverAddrConst"
    /\ SelectUprobes(lastRes[1].info.Modules) = {"uprobe_http2Server_operateHeader"}
    /\ \A flag \in BOOLEAN :
         /\ serverAddrConst_InjectOption(lastRes[1].info, flag).err # NoErr
         /\ serverAddrConst_InjectOption(lastRes[1].info, flag).opt = EmptyMap
         /\ framePosConst_InjectOption(lastRes[1].info, flag).err # NoErr
         /\ framePosConst_InjectOption(lastRes[1].info, flag).opt = EmptyMap

\* A target without grpc (but with golang.org/x/net) was resolved, and failed.
C5_Witness ==
  /\ lastRes # << >>
  /\ DOMAIN lastRes[1].info.Modules = {std, xnet}
  /\ lastRes[1].out.err # NoErr

\* The span of the event just processed.
LastSpan == lastEv[1].spans[1]

\* C6: the span carries server.address and server.port exactly when
\* serverAddr is true when the event is processed, whatever LocalAddr holds.
C6_AddrIffFlag ==
  lastEv # << >> =>
    /\ ("server.address" \in DOMAIN LastSpan.Attributes) <=> serverAddr
    /\ ("server.port" \in DOMAIN LastSpan.Attributes) <=> serverAddr
    /\ serverAddr =>
         /\ LastSpan.Attributes["server.address"] = IPString(lastEv[1].e.LocalAddr.IP)
         /\ LastSpan.Attributes["server.port"] = lastEv[1].e.LocalAddr.Port

\* An event with a non-zero address was processed under a false flag and its
\* span has neither attribute.
C6_Witness ==
  /\ lastEv # << >>
  /\ ~serverAddr
  /\ lastEv[1].e.LocalAddr.Port = 8080
  /\ lastEv[1].e.LocalAddr.IP # IPZero
  /\ DOMAIN LastSpan.Attributes = {"rpc.system", "rpc.service", "rpc.grpc.status_code"}

\* C7: idempotence: a resolution given the same info as the resolution
\* before it has the same outcome: the same error, and the same resolved
\* probe with the same constants.
C7_Idempotent ==
  prevSame # << >> => prevSame[1] = lastRes[1].out

\* Version 1.60.0 was resolved twice in a row, with success.
C7_Witness ==
  /\ prevSame # << >>
  /\ LastResolved
  /\ LastVersion = <<1, 60, 0>>
  /\ LastProbe.Consts["server_addr_supported"]
  /\ LastProbe.Consts["is_new_frame_pos"]

\* C8: the span status is Error exactly when HasStatus is non-zero and the
\* status code is one of 2, 4, 12, 13, 14, 15; it is unset otherwise.
C8_StatusMapping ==
  lastEv # << >> =>
    /\ LastSpan.Status \in {"Error", "Unset"}
    /\ LastSpan.Status = "Error" <=>
         (lastEv[1].e.HasStatus # 0 /\ lastEv[1].e.StatusCode \in {2, 4, 12, 13, 14, 15})

\* An Unavailable status was written and the span status is Error.
C8_Witness ==
  /\ lastEv # << >>
  /\ lastEv[1].e.HasStatus = 255
  /\ lastEv[1].e.StatusCode = 14
  /\ LastSpan.Status = "Error"

\* C9: processFn returns exactly one span; its parent identifier is the
\* event's when that is non-zero and is empty (a root span) when it is zero.
C9_OneSpanParentIffValid ==
  lastEv # << >> =>
    /\ Len(lastEv[1].spans) = 1
    /\ LastSpan.ParentSpanID # 0 <=> lastEv[1].e.ParentSpanContext.SpanID # 0
    /\ LastSpan.ParentSpanID = lastEv[1].e.ParentSpanContext.SpanID

\* An event with parent 7 was processed into a span with parent 7.
C9_Witness ==
  /\ lastEv # << >>
  /\ lastEv[1].e.ParentSpanContext.SpanID = 7
  /\ LastSpan.ParentSpanID = 7

\* The status capturing entry handlers.
StatusEntries == {"uprobe_http2Server_WriteStatus", "uprobe_http2Server_WriteStatus2"}

\* C10: 1.40.0 is the minimum version with status parsing: a version of at
\* least 1.40.0 selects exactly one status uprobe (WriteStatus below 1.69.0,
\* writeStatus from 1.69.0), a version below 1.40.0 selects none, and so a
\* status uprobe is selected exactly when status_s_pos and status_code_pos
\* are resolved.
C10_StatusFromMinVersion ==
  LastResolved =>
    /\ LastProbe.Uprobes \cap StatusEntries =
         IF ~AtLeast(LastVersion, 1, 40) THEN {}
         ELSE IF AtLeast(LastVersion, 1, 69) THEN {"uprobe_http2Server_WriteStatus2"}
         ELSE {"uprobe_http2Server_WriteStatus"}
    /\ (LastProbe.Uprobes \cap StatusEntries # {}) <=>
         ({"status_s_pos", "status_code_pos"} \subseteq DOMAIN LastProbe.Consts)

====
